---- MODULE Spec2Model ----
(***************************************************************************)
(* Model of src/app.py: the ECG analysis script.                           *)
(*                                                                         *)
(* Two specifications over the same variables:                             *)
(*   Spec   - main(): argument parsing result, load_ecg_channel,           *)
(*            print_statistics, generate_graphs, the run_all_records loop. *)
(*   FnSpec - the module-level functions print_statistics, plot_ecdf,      *)
(*            plot_pdf, plot_autocorrelation and plot_psd called directly, *)
(*            in any order, on a segment drawn from a bounded set.         *)
(*                                                                         *)
(* Samples are integers (amplitudes in a fixed unit); every value numpy    *)
(* derives from them by +, -, * and / is an exact rational [n, d], d > 0   *)
(* in lowest terms, and 0/0 is NaN, [n |-> 0, d |-> 0].                    *)
(***************************************************************************)
EXTENDS Integers, Sequences, FiniteSets

VARIABLES args, listing, pc, idx, p_signal, channel_sample, loaded,
          record_name, record_id, stats, ecdf_out, pdf_out, acorr_out,
          psd_out, log, loads, raised, exit_status

vars == <<args, listing, pc, idx, p_signal, channel_sample, loaded,
          record_name, record_id, stats, ecdf_out, pdf_out, acorr_out,
          psd_out, log, loads, raised, exit_status>>

(***************************************************************************)
(* Bounds of the model.                                                    *)
(***************************************************************************)
\* longest recording (in samples) wfdb.rdrecord returns
MaxLen == 3
\* np.sqrt is modelled with this many steps per unit (see np_sqrt)
SqrtScale == 100

\* amplitudes a sample can take
Samples == {-1, 0, 2}

RECURSIVE SeqsUpTo(_)
SeqsUpTo(n) ==
    IF n = 0 THEN {<<>>}
    ELSE LET shorter == SeqsUpTo(n - 1)
         IN  shorter \cup {Append(s, v) : s \in {t \in shorter : Len(t) = n - 1}, v \in Samples}

\* every segment a function can be handed
Segments == SeqsUpTo(MaxLen)
\* every recording wfdb can return: at least one sample
Recordings == Segments \ {<<>>}

(***************************************************************************)
(* Rational arithmetic: what numpy's float operations compute, exactly.    *)
(***************************************************************************)
Abs(a) == IF a < 0 THEN -a ELSE a

RECURSIVE Gcd(_, _)
Gcd(a, b) == IF b = 0 THEN a ELSE Gcd(b, a % b)

NaN == [n |-> 0, d |-> 0]

IsNaN(r) == r.d = 0

\* n / d in lowest terms; a zero divisor gives NaN (numpy: 0.0 / 0 with a warning)
Rat(n, d) ==
    IF d = 0 THEN NaN
    ELSE LET g == Gcd(Abs(n), Abs(d))
             s == IF d < 0 THEN -1 ELSE 1
         IN  [n |-> (s * n) \div g, d |-> (s * d) \div g]

RInt(a) == [n |-> a, d |-> 1]

RAdd(a, b) == IF IsNaN(a) \/ IsNaN(b) THEN NaN ELSE Rat(a.n * b.d + b.n * a.d, a.d * b.d)

RSub(a, b) == IF IsNaN(a) \/ IsNaN(b) THEN NaN ELSE Rat(a.n * b.d - b.n * a.d, a.d * b.d)

RMul(a, b) == IF IsNaN(a) \/ IsNaN(b) THEN NaN ELSE Rat(a.n * b.n, a.d * b.d)

RDivInt(a, k) == IF IsNaN(a) THEN NaN ELSE Rat(a.n, a.d * k)

RLess(a, b) == ~IsNaN(a) /\ ~IsNaN(b) /\ a.n * b.d < b.n * a.d

(***************************************************************************)
(* numpy / scipy operations the script calls.                              *)
(***************************************************************************)
ToFloat(x) == [i \in 1..Len(x) |-> RInt(x[i])]

RECURSIVE np_sum(_)
np_sum(r) == IF r = <<>> THEN RInt(0) ELSE RAdd(r[1], np_sum(Tail(r)))

\* np.mean of a float array: sum / len; the empty array gives 0/0 = NaN
np_mean_f(r) == RDivInt(np_sum(r), Len(r))

np_mean(x) == np_mean_f(ToFloat(x))

\* x - np.mean(x), elementwise
Centered(x) ==
    LET m == np_mean(x)
    IN  [i \in 1..Len(x) |-> RSub(RInt(x[i]), m)]

\* numpy's var: the sum of squared deviations from the mean over len - ddof
np_var_ddof(x, ddof) ==
    LET c == Centered(x)
        sq == [i \in 1..Len(x) |-> RMul(c[i], c[i])]
    IN  IF Len(x) - ddof <= 0 THEN NaN ELSE RDivInt(np_sum(sq), Len(x) - ddof)

RECURSIVE ISqrtBetween(_, _, _)
\* the k in lo..hi-1 with k*k <= v < (k+1)*(k+1), given lo*lo <= v < hi*hi
ISqrtBetween(v, lo, hi) ==
    IF hi - lo <= 1 THEN lo
    ELSE LET mid == (lo + hi) \div 2
         IN  IF mid * mid <= v THEN ISqrtBetween(v, mid, hi)
             ELSE ISqrtBetween(v, lo, mid)

\* np.sqrt of a non-negative value, rounded down to a multiple of 1/SqrtScale
\* (a float square root is the real one rounded to the float grid)
np_sqrt(r) ==
    IF IsNaN(r) THEN NaN
    ELSE LET v == (r.n * SqrtScale * SqrtScale) \div r.d
         IN  Rat(ISqrtBetween(v, 0, v + 1), SqrtScale)

np_var_sample(x) == np_var_ddof(x, 1)

\* np.var(signal): ddof defaults to 0
np_var(x) == np_var_ddof(x, 0)

\* np.std(signal): the square root of numpy's own ddof = 0 variance
np_std(x) == np_sqrt(np_var_ddof(x, 0))

RECURSIVE Insert(_, _)
Insert(v, s) ==
    IF s = <<>> THEN <<v>>
    ELSE IF v <= s[1] THEN <<v>> \o s
    ELSE <<s[1]>> \o Insert(v, Tail(s))

RECURSIVE np_sort(_)
\* np.sort(data): a sorted copy, ascending
np_sort(data) == IF data = <<>> THEN <<>> ELSE Insert(data[1], np_sort(Tail(data)))

\* np.arange(lo, hi)
np_arange(lo, hi) == [i \in 1..(IF hi > lo THEN hi - lo ELSE 0) |-> lo + i - 1]

\* scipy.signal.correlate(a, b, mode='full'), 1-D: z[k] = sum_l a[l] * b[l - k + len(b) - 1]
\* for k = 0..len(a)+len(b)-2 (sequences here are 1-based)
correlate_full(a, b) ==
    LET na == Len(a)
        nb == Len(b)
        term(k, l) == LET m == l - k + nb - 1
                      IN  IF m >= 0 /\ m < nb THEN RMul(a[l + 1], b[m + 1]) ELSE RInt(0)
    IN  [k1 \in 1..(na + nb - 1) |-> np_sum([l1 \in 1..na |-> term(k1 - 1, l1 - 1)])]

\* a[start:], start >= 0
SliceFrom(a, start) == SubSeq(a, start + 1, Len(a))

\* Python's a[start:end]: negative indices count from the end, both are clamped
\* to 0..len(a), and an empty range gives the empty array
PyIndex(i, n) ==
    LET j == IF i < 0 THEN i + n ELSE i
    IN  IF j < 0 THEN 0 ELSE IF j > n THEN n ELSE j

PySlice(a, start, end) == SubSeq(a, PyIndex(start, Len(a)) + 1, PyIndex(end, Len(a)))

AllEqual(x) == \A i, j \in 1..Len(x) : x[i] = x[j]

SeqMin(x) == CHOOSE v \in {x[i] : i \in 1..Len(x)} : \A j \in 1..Len(x) : v <= x[j]

SeqMax(x) == CHOOSE v \in {x[i] : i \in 1..Len(x)} : \A j \in 1..Len(x) : v >= x[j]

(***************************************************************************)
(* Strings the script slices: file names, as sequences of characters.      *)
(***************************************************************************)
HeaSuffix == <<".", "h", "e", "a">>

\* endswith without the first character of the suffix: 'hea' for '.hea'
endswith_tail(name, suffix) ==
    /\ Len(name) >= Len(suffix) - 1
    /\ SubSeq(name, Len(name) - Len(suffix) + 2, Len(name)) = Tail(suffix)

\* record.endswith('.hea')
endswith(name, suffix) ==
    /\ Len(name) >= Len(suffix)
    /\ SubSeq(name, Len(name) - Len(suffix) + 1, Len(name)) = suffix

\* record[:-4]
StripLast4(name) == SubSeq(name, 1, PyIndex(-4, Len(name)))

default_path == <<"d", "/">>

\* directory listings os.listdir can return (any order, any other files)
Listings ==
    { << <<"a">> \o HeaSuffix, <<"a", ".", "d", "a", "t">> >>,
      << <<"b">> \o HeaSuffix, <<"x", "h", "e", "a">>, <<"a">> \o HeaSuffix >>,
      << <<"n", "o", "t", "e">> >> }

\* values of --record
RecordArgs == { <<"a">>, <<"c">> }

\* values of --start and --end
Starts == -1..1

Ends == 0..(MaxLen + 1)

(***************************************************************************)
(* The script's functions.                                                 *)
(***************************************************************************)
NotComputed == [status |-> "none"]

Raise(kind) == [status |-> "raised", error |-> kind]

\* welch(..., nperseg=2048)
nperseg_default == 2048

\* np.linspace(..., 1000)
kde_grid_points == 1000

\* plt.hist(..., bins=30)
hist_bins == 30

\* print_statistics: the three values it computes (and then logs)
print_statistics(signal) ==
    [status |-> "ok",
     mean |-> np_mean(signal),
     variance |-> np_var(signal),
     std |-> np_std(signal)]

\* ecdf with ranks counted from 0: y = np.arange(0, len(x)) / len(x)
ecdf_from_zero(data) ==
    LET x == np_sort(data)
        ranks == np_arange(0, Len(x))
    IN  [status |-> "ok",
         x |-> x,
         y |-> [i \in 1..Len(ranks) |-> Rat(ranks[i], Len(x))],
         data |-> data]

\* ecdf sorting its argument in place (data.sort()): the caller's array changes
ecdf_in_place(data) ==
    LET x == np_sort(data)
        ranks == np_arange(1, Len(x) + 1)
    IN  [status |-> "ok",
         x |-> x,
         y |-> [i \in 1..Len(ranks) |-> Rat(ranks[i], Len(x))],
         data |-> x]

\* ecdf(data) -> (x, y); data: the caller's array after the call (np.sort
\* returns a sorted copy and leaves its argument as passed)
ecdf(data) ==
    LET x == np_sort(data)
        ranks == np_arange(1, Len(x) + 1)
    IN  [status |-> "ok",
         x |-> x,
         y |-> [i \in 1..Len(ranks) |-> Rat(ranks[i], Len(x))],
         data |-> data]

\* plot_pdf up to the KDE and its grid: gaussian_kde refuses a dataset of fewer
\* than two elements (ValueError) and one whose covariance is singular, i.e.
\* all samples equal (LinAlgError); both propagate out of plot_pdf
plot_pdf(signal) ==
    IF Len(signal) <= 1 THEN Raise("ValueError")
    ELSE IF AllEqual(signal) THEN Raise("LinAlgError")
    ELSE [status |-> "ok",
          grid_lo |-> SeqMin(signal),
          grid_hi |-> SeqMax(signal),
          grid_points |-> kde_grid_points,
          bins |-> hist_bins]

\* the kept half started one sample late
acorr_start_late(size) == size \div 2 + 1

\* acorr.size // 2: the index the kept half starts at
acorr_start(size) == size \div 2

\* plot_autocorrelation up to lags: correlate the mean-centred signal with itself,
\* keep acorr[acorr.size // 2:]
autocorrelation(signal) ==
    LET c == Centered(signal)
        acorr == correlate_full(c, c)
        kept == SliceFrom(acorr, acorr_start(Len(acorr)))
    IN  [status |-> "ok", lags |-> np_arange(0, Len(kept)), values |-> kept]

\* what plot_autocorrelation can do with the signal: on an empty signal
\* scipy's correlate either raises ValueError or returns an empty array,
\* depending on the method it picks
autocorrelation_outcomes(signal) ==
    IF Len(signal) = 0 THEN {Raise("ValueError"), autocorrelation(signal)}
    ELSE {autocorrelation(signal)}

\* the nperseg plot_psd hands to welch
psd_nperseg_arg(n) == nperseg_default

\* plot_psd up to welch's result. welch itself, given nperseg greater than the
\* input length, warns and uses the input length; f = k * fs / nperseg for
\* k = 0..nperseg // 2; an empty input gives empty f and Pxx
plot_psd(signal, fs) ==
    LET n == Len(signal)
        asked == psd_nperseg_arg(n)
        used == IF asked > n THEN n ELSE asked
    IN  [status |-> "ok",
         nperseg_arg |-> asked,
         nperseg |-> used,
         library_fallback |-> asked > n,
         f |-> IF n = 0 THEN <<>>
               ELSE [k1 \in 1..(used \div 2 + 1) |-> Rat((k1 - 1) * fs, used)]]

ReadFailed == [ok |-> FALSE]

\* what wfdb.rdrecord can do: raise, or return a record whose p_signal column
\* for the channel is one of Recordings
ReadOutcomes == {ReadFailed} \cup {[ok |-> TRUE, column |-> r] : r \in Recordings}

\* load_ecg_channel without the sys.exit(1): the error is logged and an empty
\* segment goes back to main
load_ecg_channel_no_exit(record_path, rid, outcome, start, end) ==
    LET name == record_path \o rid
    IN  [raised |-> "none",
         events |-> IF outcome.ok
                    THEN << [ev |-> "read", rec |-> name, ok |-> TRUE] >>
                    ELSE << [ev |-> "read", rec |-> name, ok |-> FALSE],
                            [ev |-> "error", rec |-> name] >>,
         p_signal |-> IF outcome.ok THEN outcome.column ELSE <<>>,
         signal |-> IF outcome.ok THEN PySlice(outcome.column, start, end) ELSE <<>>,
         record_name |-> name]

\* load_ecg_channel(record_path, record_id, channel, start, end) for one outcome
\* of the read: one call of rdrecord; on an exception, logger.error and
\* sys.exit(1); otherwise the slice signal[start:end] and the record name
load_ecg_channel(record_path, rid, outcome, start, end) ==
    LET name == record_path \o rid
    IN  IF ~outcome.ok
        THEN [raised |-> "SystemExit",
              events |-> << [ev |-> "read", rec |-> name, ok |-> FALSE],
                            [ev |-> "error", rec |-> name] >>,
              p_signal |-> <<>>,
              signal |-> <<>>,
              record_name |-> name]
        ELSE [raised |-> "none",
              events |-> << [ev |-> "read", rec |-> name, ok |-> TRUE] >>,
              p_signal |-> outcome.column,
              signal |-> PySlice(outcome.column, start, end),
              record_name |-> name]

\* save_plot and plt.show: the figure of one kind for one record, written to
\* grafice/<kind>/<record_id>.png only when save is set
GraphEvent(kind, rid, save) == [ev |-> "graph", kind |-> kind, rec |-> rid, saved |-> save]

StatsEvent(name) == [ev |-> "stats", rec |-> name]

(***************************************************************************)
(* State.                                                                  *)
(*   args            the parsed command line                               *)
(*   listing, idx    os.listdir's result and the loop's position in it     *)
(*   pc              the statement main (or the caller, in FnSpec) is at   *)
(*   p_signal        the channel column of the record last read            *)
(*   channel_sample  the segment the functions are handed (the array)      *)
(*   loaded          the segment as load_ecg_channel returned it           *)
(*   record_name, record_id   the names the statistics and graphs carry    *)
(*   stats .. psd_out         what each function last computed             *)
(*   log             reads, error lines, statistics lines, figures, in     *)
(*                   the order the run produced them                       *)
(*   loads           how many times load_ecg_channel has been called       *)
(*   raised          the exception that ended the run ("none" if none)     *)
(*   exit_status     the process's exit status, -1 while it runs           *)
(***************************************************************************)
ArgSets ==
    [path : {default_path}, record : RecordArgs, channel : {0},
     start : Starts, end : Ends, fs : {250},
     save : {TRUE}, run_all_records : BOOLEAN]

InitCommon ==
    /\ listing = <<>>
    /\ idx = 0
    /\ p_signal = <<>>
    /\ record_name = <<>>
    /\ record_id = <<>>
    /\ stats = NotComputed
    /\ ecdf_out = NotComputed
    /\ pdf_out = NotComputed
    /\ acorr_out = NotComputed
    /\ psd_out = NotComputed
    /\ log = <<>>
    /\ loads = 0
    /\ raised = "none"
    /\ exit_status = -1

Init ==
    /\ args \in ArgSets
    /\ pc = "load_first"
    /\ channel_sample = <<>>
    /\ loaded = <<>>
    /\ InitCommon

\* an uncaught exception leaves main: traceback, exit status 1
Crash(kind) ==
    /\ pc' = "crashed"
    /\ raised' = kind
    /\ exit_status' = 1

\* one call of load_ecg_channel from main, and the assignment of its result
Load(rid, next) ==
    \E outcome \in ReadOutcomes :
        LET r == load_ecg_channel(args.path, rid, outcome, args.start, args.end)
        IN  /\ log' = log \o r.events
            /\ loads' = loads + 1
            /\ IF r.raised = "none"
               THEN /\ p_signal' = r.p_signal
                    /\ channel_sample' = r.signal
                    /\ loaded' = r.signal
                    /\ record_name' = r.record_name
                    /\ pc' = next
                    /\ UNCHANGED <<raised, exit_status>>
               ELSE /\ pc' = "exited"
                    /\ raised' = r.raised
                    /\ exit_status' = 1
                    /\ UNCHANGED <<p_signal, channel_sample, loaded, record_name>>
            /\ stats' = NotComputed
            /\ ecdf_out' = NotComputed
            /\ pdf_out' = NotComputed
            /\ acorr_out' = NotComputed
            /\ psd_out' = NotComputed

\* main, lines 183-185: the record named by --record is loaded first
LoadFirst ==
    /\ pc = "load_first"
    /\ Load(args.record, IF args.run_all_records THEN "listdir" ELSE "print_statistics")
    /\ record_id' = args.record
    /\ UNCHANGED <<args, listing, idx>>

\* main, line 188: os.listdir(args.path)
ListDir ==
    /\ pc = "listdir"
    /\ \E l \in Listings : listing' = l
    /\ idx' = 1
    /\ pc' = "loop"
    /\ UNCHANGED <<args, p_signal, channel_sample, loaded, record_name, record_id,
                   stats, ecdf_out, pdf_out, acorr_out, psd_out, log, loads, raised, exit_status>>

\* main, line 189: an entry that does not end in '.hea' is passed over
LoopSkip ==
    /\ pc = "loop"
    /\ idx <= Len(listing)
    /\ ~endswith(listing[idx], HeaSuffix)
    /\ idx' = idx + 1
    /\ UNCHANGED <<args, listing, pc, p_signal, channel_sample, loaded, record_name,
                   record_id, stats, ecdf_out, pdf_out, acorr_out, psd_out, log,
                   loads, raised, exit_status>>

\* main, lines 189-193: an entry ending in '.hea' is loaded under its base name
LoopLoad ==
    /\ pc = "loop"
    /\ idx <= Len(listing)
    /\ endswith(listing[idx], HeaSuffix)
    /\ Load(StripLast4(listing[idx]), "print_statistics")
    /\ record_id' = StripLast4(listing[idx])
    /\ UNCHANGED <<args, listing, idx>>

\* main: the listing is exhausted and main returns
LoopEnd ==
    /\ pc = "loop"
    /\ idx > Len(listing)
    /\ pc' = "done"
    /\ exit_status' = 0
    /\ UNCHANGED <<args, listing, idx, loads, p_signal, channel_sample, loaded, record_name,
                   record_id, stats, ecdf_out, pdf_out, acorr_out, psd_out, log, loads, raised>>

(***************************************************************************)
(* The calls of the analysis functions.  Each Do... is one call; `next' is *)
(* where the caller goes on, and `fatal' says whether an exception leaving *)
(* the call ends the process (it does in main, which catches nothing).     *)
(***************************************************************************)
Return(result, event, next, fatal) ==
    IF result.status = "raised"
    THEN /\ log' = log
         /\ IF fatal THEN Crash(result.error)
            ELSE pc' = next /\ UNCHANGED <<raised, exit_status>>
    ELSE /\ log' = Append(log, event)
         /\ pc' = next
         /\ UNCHANGED <<raised, exit_status>>

DoPrintStatistics(next, fatal) ==
    /\ stats' = print_statistics(channel_sample)
    /\ Return(stats', StatsEvent(record_name), next, fatal)
    /\ UNCHANGED <<args, listing, idx, loads, p_signal, channel_sample, loaded, record_name,
                   record_id, ecdf_out, pdf_out, acorr_out, psd_out>>

DoPlotEcgSignal(next) ==
    /\ log' = Append(log, GraphEvent("ecg_signal", record_id, args.save))
    /\ pc' = next
    /\ UNCHANGED <<args, listing, idx, loads, p_signal, channel_sample, loaded, record_name,
                   record_id, stats, ecdf_out, pdf_out, acorr_out, psd_out, raised,
                   exit_status>>

DoPlotEcdf(next, fatal) ==
    LET r == ecdf(channel_sample)
    IN  /\ ecdf_out' = [status |-> r.status, x |-> r.x, y |-> r.y]
        /\ channel_sample' = r.data
        /\ Return(r, GraphEvent("ecdf", record_id, args.save), next, fatal)
        /\ UNCHANGED <<args, listing, idx, loads, p_signal, loaded, record_name, record_id,
                       stats, pdf_out, acorr_out, psd_out>>

DoPlotPdf(next, fatal) ==
    /\ pdf_out' = plot_pdf(channel_sample)
    /\ Return(pdf_out', GraphEvent("pdf", record_id, args.save), next, fatal)
    /\ UNCHANGED <<args, listing, idx, loads, p_signal, channel_sample, loaded, record_name,
                   record_id, stats, ecdf_out, acorr_out, psd_out>>

DoPlotAutocorrelation(next, fatal) ==
    /\ \E r \in autocorrelation_outcomes(channel_sample) :
          /\ acorr_out' = r
          /\ Return(r, GraphEvent("autocorrelation", record_id, args.save), next, fatal)
    /\ UNCHANGED <<args, listing, idx, loads, p_signal, channel_sample, loaded, record_name,
                   record_id, stats, ecdf_out, pdf_out, psd_out>>

DoPlotPsd(next, fatal) ==
    /\ psd_out' = plot_psd(channel_sample, args.fs)
    /\ Return(psd_out', GraphEvent("psd", record_id, args.save), next, fatal)
    /\ UNCHANGED <<args, listing, idx, loads, p_signal, channel_sample, loaded, record_name,
                   record_id, stats, ecdf_out, pdf_out, acorr_out>>

\* main, lines 194 and 197
PrintStatistics == pc = "print_statistics" /\ DoPrintStatistics("plot_ecg_signal", TRUE)

\* generate_graphs, lines 156-160, in its order
PlotEcgSignal == pc = "plot_ecg_signal" /\ DoPlotEcgSignal("plot_ecdf")

PlotEcdf == pc = "plot_ecdf" /\ DoPlotEcdf("plot_pdf", TRUE)

PlotPdf == pc = "plot_pdf" /\ DoPlotPdf("plot_autocorrelation", TRUE)

PlotAutocorrelation == pc = "plot_autocorrelation" /\ DoPlotAutocorrelation("plot_psd", TRUE)

PlotPsd == pc = "plot_psd" /\ DoPlotPsd("generate_graphs_return", TRUE)

\* main after generate_graphs: the next listing entry, or the end of main
NextRecord ==
    /\ pc = "generate_graphs_return"
    /\ args.run_all_records
    /\ idx' = idx + 1
    /\ pc' = "loop"
    /\ UNCHANGED <<args, listing, p_signal, channel_sample, loaded, record_name,
                   record_id, stats, ecdf_out, pdf_out, acorr_out, psd_out, log,
                   loads, raised, exit_status>>

Finish ==
    /\ pc = "generate_graphs_return"
    /\ ~args.run_all_records
    /\ pc' = "done"
    /\ exit_status' = 0
    /\ UNCHANGED <<args, listing, idx, loads, p_signal, channel_sample, loaded, record_name,
                   record_id, stats, ecdf_out, pdf_out, acorr_out, psd_out, log, loads, raised>>

Next ==
    \/ LoadFirst
    \/ ListDir
    \/ LoopSkip
    \/ LoopLoad
    \/ LoopEnd
    \/ PrintStatistics
    \/ PlotEcgSignal
    \/ PlotEcdf
    \/ PlotPdf
    \/ PlotAutocorrelation
    \/ PlotPsd
    \/ NextRecord
    \/ Finish

Spec == Init /\ [][Next]_vars

(***************************************************************************)
(* FnSpec: a caller that holds one segment and calls the five analysis     *)
(* functions on it, each once, in any order; an exception returns to the   *)
(* caller.                                                                 *)
(***************************************************************************)
FnInit ==
    /\ args = [path |-> default_path, record |-> <<"a">>, channel |-> 0,
               start |-> 0, end |-> MaxLen, fs |-> 250,
               save |-> TRUE, run_all_records |-> FALSE]
    /\ pc = "fn"
    /\ channel_sample \in Segments
    /\ loaded = channel_sample
    /\ InitCommon

FnPrintStatistics == pc = "fn" /\ stats = NotComputed /\ DoPrintStatistics("fn", FALSE)

FnPlotEcdf == pc = "fn" /\ ecdf_out = NotComputed /\ DoPlotEcdf("fn", FALSE)

FnPlotPdf == pc = "fn" /\ pdf_out = NotComputed /\ DoPlotPdf("fn", FALSE)

FnPlotAutocorrelation == pc = "fn" /\ acorr_out = NotComputed /\ DoPlotAutocorrelation("fn", FALSE)

FnPlotPsd == pc = "fn" /\ psd_out = NotComputed /\ DoPlotPsd("fn", FALSE)

FnNext ==
    \/ FnPrintStatistics
    \/ FnPlotEcdf
    \/ FnPlotPdf
    \/ FnPlotAutocorrelation
    \/ FnPlotPsd

FnSpec == FnInit /\ [][FnNext]_vars

(***************************************************************************)
(* Properties.  Sums below are over the integer samples, computed apart    *)
(* from the operators above.                                               *)
(***************************************************************************)
RECURSIVE IntSum(_)
IntSum(x) == IF x = <<>> THEN 0 ELSE x[1] + IntSum(Tail(x))

Count(x, v) == Cardinality({i \in 1..Len(x) : x[i] = v})

Computed(d) == d.status # "none"

\* sum over i of (N x[i] - S) (N x[i+k] - S): N^2 times the lag-k sum of
\* products of the mean-centred samples
LagSumScaled(x, k) ==
    LET N == Len(x)
        S == IntSum(x)
    IN  IntSum([i \in 1..(N - k) |-> (N * x[i] - S) * (N * x[i + k] - S)])

\* C1: for every non-empty input of N samples, ecdf returns x and y of length N,
\* x sorted ascending and a permutation (as a multiset) of the input,
\* y[i] = (i+1)/N for i = 0..N-1, y strictly increasing (ties included) and
\* y[N-1] = 1.
C1_EcdfContract ==
    (Computed(ecdf_out) /\ Len(loaded) > 0) =>
        LET N == Len(loaded)
            x == ecdf_out.x
            y == ecdf_out.y
        IN  /\ ecdf_out.status = "ok"
            /\ Len(x) = N
            /\ Len(y) = N
            /\ \A i \in 1..(N - 1) : x[i] <= x[i + 1]
            /\ \A v \in Samples : Count(x, v) = Count(loaded, v)
            /\ \A i \in 1..N : y[i].d > 0 /\ y[i].n * N = i * y[i].d
            /\ \A i \in 1..(N - 1) : RLess(y[i], y[i + 1])
            /\ y[N] = RInt(1)

\* C1's case: ecdf has run on an unsorted input with a tie
C1_Witness ==
    /\ Computed(ecdf_out)
    /\ loaded = <<2, -1, 2>>

\* C2: for every non-empty segment of N samples the autocorrelation has N values
\* at lags 0..N-1, the value at lag k being the sum of c[i]*c[i+k] over the
\* mean-centred samples c; the lag-0 value is the sum of squared deviations, and
\* a constant segment gives N zeros and no error.
C2_AutocorrelationContract ==
    (Computed(acorr_out) /\ Len(loaded) > 0) =>
        LET N == Len(loaded)
            S == IntSum(loaded)
            v == acorr_out.values
        IN  /\ acorr_out.status = "ok"
            /\ Len(v) = N
            /\ acorr_out.lags = [k1 \in 1..N |-> k1 - 1]
            /\ \A k1 \in 1..N : v[k1] = Rat(LagSumScaled(loaded, k1 - 1), N * N)
            /\ v[1] = Rat(IntSum([i \in 1..N |-> (N * loaded[i] - S) * (N * loaded[i] - S)]), N * N)
            /\ AllEqual(loaded) => \A k1 \in 1..N : v[k1] = RInt(0)

\* C2's case: the autocorrelation of a constant segment of several samples
C2_Witness ==
    /\ Computed(acorr_out)
    /\ Len(loaded) = MaxLen
    /\ AllEqual(loaded)
    /\ loaded[1] = 2

\* C8: for every non-empty segment, variance = (1/N) sum (x[i] - mean)^2 with
\* mean = (1/N) sum x[i] (the divisor is N, not N-1); the standard deviation is
\* the square root of that variance, to the resolution of the square root
\* (std = k / SqrtScale with k^2 <= variance * SqrtScale^2 < (k+1)^2); a
\* constant segment has variance 0 and standard deviation 0.
C8_PopulationVariance ==
    (Computed(stats) /\ Len(loaded) > 0) =>
        LET N == Len(loaded)
            S == IntSum(loaded)
            Q == IntSum([i \in 1..N |-> loaded[i] * loaded[i]])
            var == stats.variance
            sd == stats.std
        IN  /\ stats.status = "ok"
            /\ stats.mean = Rat(S, N)
            /\ var = Rat(N * Q - S * S, N * N)
            /\ var = Rat(LagSumScaled(loaded, 0), N * N * N)
            /\ sd.d > 0 /\ sd.n >= 0
            /\ (sd.n * SqrtScale) % sd.d = 0
            /\ LET k == (sd.n * SqrtScale) \div sd.d
               IN  /\ k * k * var.d <= var.n * SqrtScale * SqrtScale
                   /\ var.n * SqrtScale * SqrtScale < (k + 1) * (k + 1) * var.d
            /\ AllEqual(loaded) => (var = RInt(0) /\ sd = RInt(0))

\* C8's case: the statistics of a segment whose N and N-1 variances differ
C8_Witness ==
    /\ Computed(stats)
    /\ loaded = <<-1, 0, 2>>
    /\ stats.variance = Rat(14, 9)

\* C7: no analysis function modifies the segment it is handed or anything the
\* others read: the segment stays as load_ecg_channel returned it, and each
\* descriptor is the one the function gives on that segment, in whatever order
\* the functions have run.
C7_FunctionsArePure ==
    /\ channel_sample = loaded
    /\ Computed(stats) => stats = print_statistics(loaded)
    /\ Computed(ecdf_out) => ecdf_out.x = np_sort(loaded)
    /\ Computed(pdf_out) => pdf_out = plot_pdf(loaded)
    /\ Computed(acorr_out) => acorr_out \in autocorrelation_outcomes(loaded)
    /\ Computed(psd_out) => psd_out = plot_psd(loaded, args.fs)

\* C7's case: all five functions have run on an unsorted segment, the ECDF first
C7_Witness ==
    /\ loaded = <<2, 0, -1>>
    /\ Computed(stats) /\ Computed(ecdf_out) /\ Computed(pdf_out)
    /\ Computed(acorr_out) /\ Computed(psd_out)
    /\ log[1].ev = "graph" /\ log[1].kind = "ecdf"

Ended == pc \in {"done", "exited", "crashed"}

\* C3: a statistics or estimator computation given a zero-length segment fails
\* fast with EmptyInputError: it yields no NaN statistics and no empty output.
C3_EmptyInputFailsFast ==
    Len(channel_sample) = 0 =>
        /\ Computed(stats) => (stats.status = "raised" /\ stats.error = "EmptyInputError")
        /\ Computed(ecdf_out) => (ecdf_out.status = "raised" /\ ecdf_out.error = "EmptyInputError")
        /\ Computed(pdf_out) => (pdf_out.status = "raised" /\ pdf_out.error = "EmptyInputError")
        /\ Computed(acorr_out) => (acorr_out.status = "raised" /\ acorr_out.error = "EmptyInputError")
        /\ Computed(psd_out) => (psd_out.status = "raised" /\ psd_out.error = "EmptyInputError")

\* 0 <= start < end <= length(source), for a source of n samples
ValidWindow(n) == 0 <= args.start /\ args.start < args.end /\ args.end <= n

\* C4: a window that violates 0 <= start < end <= length(source) makes the
\* extraction fail with InvalidRangeError: no segment, empty or truncated, comes
\* back to main and nothing is computed on one.
C4_InvalidWindowRejected ==
    (p_signal # <<>> /\ ~ValidWindow(Len(p_signal))) =>
        /\ raised = "InvalidRangeError"
        /\ Ended
        /\ ~Computed(stats)

\* C5: for a constant segment (several equal samples) run through the pipeline
\* the density estimator fails and the autocorrelation is still computed:
\* N zeros, no error.
C5_ConstantSegmentStillAutocorrelated ==
    (Ended /\ Len(loaded) >= 2 /\ AllEqual(loaded) /\ Computed(pdf_out)) =>
        /\ pdf_out.status = "raised"
        /\ acorr_out.status = "ok"
        /\ Len(acorr_out.values) = Len(loaded)
        /\ \A k1 \in 1..Len(loaded) : acorr_out.values[k1] = RInt(0)

\* C9: a segment shorter than the default 2048 is handled by plot_psd itself: the
\* nperseg it hands to welch is at most the segment length, and welch's own
\* fallback is not what shortens it.
C9_ShortSegmentExplicitBranch ==
    (Computed(psd_out) /\ Len(loaded) < nperseg_default) =>
        /\ psd_out.status = "ok"
        /\ psd_out.nperseg_arg <= Len(loaded)
        /\ ~psd_out.library_fallback

IsRead(e) == e.ev = "read"

IsFailedRead(e) == IF e.ev = "read" THEN ~e.ok ELSE FALSE

\* C6: a failed read is fatal and never retried: each load reads once, and after
\* a failed read the run has ended with exit status 1, the failed read's error
\* line being the last thing it produced: no statistics and no graph for that
\* record, nothing for any later record, in either mode.
C6_ReadFailureIsFatal ==
    /\ Cardinality({i \in 1..Len(log) : IsRead(log[i])}) = loads
    /\ pc = "exited" => (Len(log) >= 2 /\ IsFailedRead(log[Len(log) - 1]))
    /\ \A i \in 1..Len(log) :
          IsFailedRead(log[i]) =>
              /\ i = Len(log) - 1
              /\ log[Len(log)].ev = "error"
              /\ pc = "exited"
              /\ raised = "SystemExit"
              /\ exit_status = 1
              /\ \A j \in 1..Len(log) :
                    /\ log[j].ev = "stats" => log[j].rec # log[i].rec
                    /\ log[j].ev = "graph" => args.path \o log[j].rec # log[i].rec

\* C6's case: in run_all_records mode a record has been analysed and the read of
\* a later one has failed
C6_Witness ==
    /\ pc = "exited"
    /\ args.run_all_records
    /\ \E j \in 1..Len(log) : log[j].ev = "stats"

\* the '.hea' entries and their base names, read off the characters
IsHeaName(name) ==
    /\ Len(name) >= 4
    /\ name[Len(name) - 3] = "."
    /\ name[Len(name) - 2] = "h"
    /\ name[Len(name) - 1] = "e"
    /\ name[Len(name)] = "a"

BaseOf(name) == [i \in 1..(Len(name) - 4) |-> name[i]]

Shape(ev, rec, kind) == [ev |-> ev, rec |-> rec, kind |-> kind]

\* what analysing one record produces: its read, its statistics, its five graphs
AnalysisOf(base) ==
    << Shape("read", args.path \o base, ""),
       Shape("stats", args.path \o base, ""),
       Shape("graph", base, "ecg_signal"),
       Shape("graph", base, "ecdf"),
       Shape("graph", base, "pdf"),
       Shape("graph", base, "autocorrelation"),
       Shape("graph", base, "psd") >>

RECURSIVE ExpectedOf(_)
ExpectedOf(entries) ==
    IF entries = <<>> THEN <<>>
    ELSE (IF IsHeaName(entries[1]) THEN AnalysisOf(BaseOf(entries[1])) ELSE <<>>)
         \o ExpectedOf(Tail(entries))

\* a whole run_all_records run: the read of --record, then every '.hea' entry
FullExpected == << Shape("read", args.path \o args.record, "") >> \o ExpectedOf(listing)

RECURSIVE ShapesOf(_)
\* the log without its error lines, each event reduced to what, whom and kind
ShapesOf(l) ==
    IF l = <<>> THEN <<>>
    ELSE (IF l[1].ev = "error" THEN <<>>
          ELSE << Shape(l[1].ev, l[1].rec, IF l[1].ev = "graph" THEN l[1].kind ELSE "") >>)
         \o ShapesOf(Tail(l))

IsPrefix(a, b) == Len(a) <= Len(b) /\ SubSeq(b, 1, Len(a)) = a

\* C10 as stated: in run_all_records mode, once --record has been read, the run
\* analyses exactly the '.hea' entries of the listing, each once, in order.
C10_AnalysesExactlyListed ==
    (args.run_all_records /\ Ended /\ ~IsFailedRead(log[1])) =>
        ShapesOf(log) = FullExpected

\* C10 amended: the run goes through the '.hea' entries in listing order, each at
\* most once (read, statistics, the five graphs in order), after one read of
\* --record whose segment is not analysed; it stops at the first read that fails
\* or analysis that raises, and a run that reaches the end of main has analysed
\* every '.hea' entry.  A failed read of --record ends it before the listing.
C10_RunAllRecordsInOrder ==
    args.run_all_records =>
        /\ IsPrefix(ShapesOf(log), FullExpected)
        /\ pc = "done" => ShapesOf(log) = FullExpected
        /\ (Ended /\ pc # "done") =>
              \/ IsFailedRead(log[Len(log) - 1])
              \/ (pc = "crashed" /\ raised \in {"ValueError", "LinAlgError"})
        /\ (Len(log) > 0 /\ IsFailedRead(log[1])) =>
              (Len(log) = 2 /\ pc = "exited" /\ listing = <<>>)

\* C10's case: a run over a listing with two '.hea' entries and one other file
\* has reached the end of main
C10_Witness ==
    /\ args.run_all_records
    /\ pc = "done"
    /\ Len(listing) = 3
    /\ Cardinality({j \in 1..Len(log) : log[j].ev = "stats"}) = 2

====
